---- MODULE Spec2Model ----
(***************************************************************************)
(* Model of the VolumeRestrictions scheduler plugin                        *)
(* (pkg/scheduler/framework/plugins/volumerestrictions).                   *)
(*                                                                         *)
(* A Go pointer that may be nil is a sequence of length 0 (nil) or 1.      *)
(* A *preFilterState is an address into heap; address 0 is the nil pointer *)
(* and, in a CycleState, the absence of the plugin's key.                  *)
(***************************************************************************)
EXTENDS Integers, Sequences, FiniteSets, TLC

VARIABLES pod, cycleStates, heap, call

vars == <<pod, cycleStates, heap, call>>

\* ------------------------------------------------------------------ bounds
\* Longest volume list of a pod.
MaxVolumes == 2
\* Most pods resident on a node.
MaxNodePods == 2
\* Longest Ceph monitor list of an RBD volume.
MaxMonitors == 2
\* AddPod / RemovePod are offered while the counter stays within this distance of 0.
MaxRefCount == 3

\* ------------------------------------------------------------------ values
Nil == <<>>
Some(x) == <<x>>

\* All sequences over S of length at most n.
SeqsUpTo(S, n) == UNION {[1..k -> S] : k \in 0..n}

Namespaces == {"ns1", "ns2"}
ClaimNames == {"c1", "c2"}

ErrReasonDiskConflict == "node(s) had no available disk"
ErrReasonReadWriteOncePodConflict ==
    "node has pod using PersistentVolumeClaim with the same name and ReadWriteOncePod access mode"
ReadWriteOncePod == "ReadWriteOncePod"
ReadWriteOnce == "ReadWriteOnce"

\* v1.Volume: one nullable field per volume source the plugin reads.
\* A volume of any other kind (emptyDir, ...) has all five nil.
NoSource ==
    [GCEPersistentDisk |-> Nil, AWSElasticBlockStore |-> Nil, ISCSI |-> Nil,
     RBD |-> Nil, PersistentVolumeClaim |-> Nil]
GCEVolume(name, ro) ==
    [NoSource EXCEPT !.GCEPersistentDisk = Some([PDName |-> name, ReadOnly |-> ro])]
AWSVolume(id, ro) ==
    [NoSource EXCEPT !.AWSElasticBlockStore = Some([VolumeID |-> id, ReadOnly |-> ro])]
ISCSIVolume(iqn, ro) ==
    [NoSource EXCEPT !.ISCSI = Some([IQN |-> iqn, ReadOnly |-> ro])]
RBDVolume(mon, pool, image, ro) ==
    [NoSource EXCEPT !.RBD = Some([CephMonitors |-> mon, RBDPool |-> pool,
                                   RBDImage |-> image, ReadOnly |-> ro])]
PVCVolume(name) ==
    [NoSource EXCEPT !.PersistentVolumeClaim = Some([ClaimName |-> name])]

\* v1.Pod, as far as the plugin reads it.
MkPod(ns, vols) == [Namespace |-> ns, Volumes |-> vols]

\* framework.Status; a nil *Status is Success.
Status(code, reason) == [code |-> code, reason |-> reason]
Success == Status("Success", "")

\* ------------------------------------------------------------------ conflict matcher
\* sets.New(a...) of a string slice.
SetOf(a) == {a[i] : i \in 1..Len(a)}

\* Variant: only the first element of a1 is looked for in a2.
haveOverlapFirstOnly(a1, a2) ==
    /\ a1 # <<>>
    /\ a1[1] \in SetOf(a2)

haveOverlap(a1, a2) ==
    LET short == IF Len(a1) > Len(a2) THEN a2 ELSE a1
        long == IF Len(a1) > Len(a2) THEN a1 ELSE a2
        m == SetOf(short)
    IN \E i \in 1..Len(long) : long[i] \in m

gceConflict(volume, existingVolume) ==
    /\ volume.GCEPersistentDisk # Nil
    /\ existingVolume.GCEPersistentDisk # Nil
    /\ LET disk == volume.GCEPersistentDisk[1]
           existingDisk == existingVolume.GCEPersistentDisk[1]
       IN /\ disk.PDName = existingDisk.PDName
          /\ ~(disk.ReadOnly /\ existingDisk.ReadOnly)

\* Variant: two read-only mounts of one EBS volume are let through.
awsConflictUnlessReadOnly(volume, existingVolume) ==
    /\ volume.AWSElasticBlockStore # Nil
    /\ existingVolume.AWSElasticBlockStore # Nil
    /\ volume.AWSElasticBlockStore[1].VolumeID = existingVolume.AWSElasticBlockStore[1].VolumeID
    /\ ~(volume.AWSElasticBlockStore[1].ReadOnly /\ existingVolume.AWSElasticBlockStore[1].ReadOnly)

awsConflict(volume, existingVolume) ==
    /\ volume.AWSElasticBlockStore # Nil
    /\ existingVolume.AWSElasticBlockStore # Nil
    /\ volume.AWSElasticBlockStore[1].VolumeID = existingVolume.AWSElasticBlockStore[1].VolumeID

iscsiConflict(volume, existingVolume) ==
    /\ volume.ISCSI # Nil
    /\ existingVolume.ISCSI # Nil
    /\ LET iqn == volume.ISCSI[1].IQN
           eiqn == existingVolume.ISCSI[1].IQN
       IN /\ iqn = eiqn
          /\ ~(volume.ISCSI[1].ReadOnly /\ existingVolume.ISCSI[1].ReadOnly)

rbdConflict(volume, existingVolume) ==
    /\ volume.RBD # Nil
    /\ existingVolume.RBD # Nil
    /\ LET r == volume.RBD[1]
           e == existingVolume.RBD[1]
       IN /\ haveOverlap(r.CephMonitors, e.CephMonitors)
          /\ r.RBDPool = e.RBDPool
          /\ r.RBDImage = e.RBDImage
          /\ ~(r.ReadOnly /\ e.ReadOnly)

\* isVolumeConflict(volume, pod): some volume of the pod trips one of the four tests.
isVolumeConflict(volume, p) ==
    \E i \in 1..Len(p.Volumes) :
        LET existingVolume == p.Volumes[i]
        IN IF gceConflict(volume, existingVolume) THEN TRUE
           ELSE IF awsConflict(volume, existingVolume) THEN TRUE
           ELSE IF iscsiConflict(volume, existingVolume) THEN TRUE
           ELSE rbdConflict(volume, existingVolume)

\* Variant: ISCSI volumes are not checked.
needsRestrictionsCheckNoISCSI(v) ==
    IF v.GCEPersistentDisk # Nil THEN TRUE
    ELSE IF v.AWSElasticBlockStore # Nil THEN TRUE
    ELSE v.RBD # Nil

needsRestrictionsCheck(v) ==
    IF v.GCEPersistentDisk # Nil THEN TRUE
    ELSE IF v.AWSElasticBlockStore # Nil THEN TRUE
    ELSE IF v.RBD # Nil THEN TRUE
    ELSE v.ISCSI # Nil

\* Variant: only the first resident pod is compared.
satisfyVolumeConflictsFirstPod(p, nodePods) ==
    ~ \E i \in 1..Len(p.Volumes) :
        /\ needsRestrictionsCheck(p.Volumes[i])
        /\ nodePods # <<>>
        /\ isVolumeConflict(p.Volumes[i], nodePods[1])

\* satisfyVolumeConflicts(pod, nodeInfo); nodeInfo.Pods is a sequence of pods.
satisfyVolumeConflicts(p, nodePods) ==
    ~ \E i \in 1..Len(p.Volumes) :
        /\ needsRestrictionsCheck(p.Volumes[i])
        /\ \E j \in 1..Len(nodePods) : isVolumeConflict(p.Volumes[i], nodePods[j])

\* ------------------------------------------------------------------ collaborators
\* Claim store (pvcLister): the answer to Get for every namespace and claim name.
Keys == Namespaces \X ClaimNames
ClaimResults ==
    {[err |-> "NotFound", AccessModes |-> <<>>],
     [err |-> "Error", AccessModes |-> <<>>],
     [err |-> "nil", AccessModes |-> <<ReadWriteOnce>>],
     [err |-> "nil", AccessModes |-> <<ReadWriteOncePod>>]}
Stores == [Keys -> ClaimResults]
\* Exclusive-usage index (sharedLister.StorageInfos()): the keys in use by pods.
Indexes == SUBSET Keys

\* pl.pvcLister.PersistentVolumeClaims(ns).Get(name): an error, or the claim object.
Get(store, ns, name) ==
    [err |-> store[<<ns, name>>].err,
     pvc |-> [Namespace |-> ns, Name |-> name,
              AccessModes |-> store[<<ns, name>>].AccessModes]]
\* v1helper.ContainsAccessMode
ContainsAccessMode(modes, mode) == \E i \in 1..Len(modes) : modes[i] = mode
\* framework.GetNamespacedName: the key ns/name, kept as a pair.
GetNamespacedName(ns, name) == <<ns, name>>
IsPVCUsedByPods(index, key) == key \in index

\* ------------------------------------------------------------------ preFilterState
Addrs == 1..2
NilPtr == 0
ZeroState == [readWriteOncePodPVCs |-> {}, conflictingPVCRefCount |-> 0]

conflictingPVCRefCountForPod(s, podInfo) ==
    Cardinality({i \in 1..Len(podInfo.Volumes) :
        /\ podInfo.Volumes[i].PersistentVolumeClaim # Nil
        /\ podInfo.Volumes[i].PersistentVolumeClaim[1].ClaimName \in s.readWriteOncePodPVCs})

\* Variant: the counter is clamped at zero.
updateWithPodClamped(h, s, podInfo, multiplier) ==
    LET n == h[s].conflictingPVCRefCount + multiplier * conflictingPVCRefCountForPod(h[s], podInfo)
    IN [h EXCEPT ![s].conflictingPVCRefCount = IF n < 0 THEN 0 ELSE n]

\* Variant: a removed pod is not taken off the counter.
updateWithPodIgnoresRemove(h, s, podInfo, multiplier) ==
    IF multiplier < 0 THEN h
    ELSE [h EXCEPT ![s].conflictingPVCRefCount =
            @ + multiplier * conflictingPVCRefCountForPod(h[s], podInfo)]

\* s.updateWithPod(podInfo, multiplier) on the object at address s: the heap afterwards.
updateWithPod(h, s, podInfo, multiplier) ==
    [h EXCEPT ![s].conflictingPVCRefCount =
        @ + multiplier * conflictingPVCRefCountForPod(h[s], podInfo)]

\* Variant: the clone is the same object.
CloneShared(h, s, fresh) == [ret |-> s, heap |-> h]

\* s.Clone(): the pointer returned and the heap afterwards; fresh is an unused address.
Clone(h, s, fresh) ==
    IF s = NilPtr
    THEN [ret |-> NilPtr, heap |-> h]
    ELSE [ret |-> fresh,
          heap |-> [h EXCEPT ![fresh] =
                      [readWriteOncePodPVCs |-> h[s].readWriteOncePodPVCs,
                       conflictingPVCRefCount |-> h[s].conflictingPVCRefCount]]]

\* Variant: an absent state is taken to be the object at the first address.
getPreFilterStateLazy(c) ==
    IF c = NilPtr
    THEN [s |-> 1, err |-> "nil"]
    ELSE [s |-> c, err |-> "nil"]

\* getPreFilterState(cycleState): c is the pointer stored under preFilterStateKey.
getPreFilterState(c) ==
    IF c = NilPtr
    THEN [s |-> NilPtr, err |-> "cannot read PreFilterVolumeRestrictions from cycleState"]
    ELSE [s |-> c, err |-> "nil"]

RECURSIVE rwopLoop(_, _, _, _, _)
rwopLoop(store, p, ignoreNotFoundError, i, pvcs) ==
    IF i > Len(p.Volumes)
    THEN [pvcs |-> pvcs, err |-> "nil"]
    ELSE LET volume == p.Volumes[i]
         IN IF volume.PersistentVolumeClaim = Nil
            THEN rwopLoop(store, p, ignoreNotFoundError, i + 1, pvcs)
            ELSE LET got == Get(store, p.Namespace, volume.PersistentVolumeClaim[1].ClaimName)
                 IN IF got.err # "nil"
                    THEN IF ignoreNotFoundError /\ got.err = "NotFound"
                         THEN rwopLoop(store, p, ignoreNotFoundError, i + 1, pvcs)
                         ELSE [pvcs |-> {}, err |-> got.err]
                    ELSE IF ~ContainsAccessMode(got.pvc.AccessModes, ReadWriteOncePod)
                         THEN rwopLoop(store, p, ignoreNotFoundError, i + 1, pvcs)
                         ELSE rwopLoop(store, p, ignoreNotFoundError, i + 1,
                                       pvcs \cup {got.pvc.Name})

\* Variant: a claim that is not found is passed over whatever the caller asks.
readWriteOncePodPVCsForPodLenient(store, p, ignoreNotFoundError) ==
    rwopLoop(store, p, TRUE, 1, {})

readWriteOncePodPVCsForPod(store, p, ignoreNotFoundError) ==
    rwopLoop(store, p, ignoreNotFoundError, 1, {})

\* Variant: a claim of that name in use in any namespace counts.
calPreFilterStateAnyNamespace(index, p, pvcs) ==
    [readWriteOncePodPVCs |-> pvcs,
     conflictingPVCRefCount |->
        Cardinality({pvc \in pvcs :
            \E ns \in Namespaces : IsPVCUsedByPods(index, GetNamespacedName(ns, pvc))})]

calPreFilterState(index, p, pvcs) ==
    [readWriteOncePodPVCs |-> pvcs,
     conflictingPVCRefCount |->
        Cardinality({pvc \in pvcs :
            IsPVCUsedByPods(index, GetNamespacedName(p.Namespace, pvc))})]

satisfyReadWriteOncePod(h, state) ==
    IF state = NilPtr THEN Success
    ELSE IF h[state].conflictingPVCRefCount > 0
         THEN Status("Unschedulable", ErrReasonReadWriteOncePodConflict)
         ELSE Success

\* PreFilter's decision: the status and the state computed (Nil when resolution failed),
\* and whether the state is written to the cycle state.
preFilterResult(store, index, p) ==
    LET needsCheck == \E i \in 1..Len(p.Volumes) : needsRestrictionsCheck(p.Volumes[i])
        r == readWriteOncePodPVCsForPod(store, p, FALSE)
        s == calPreFilterState(index, p, r.pvcs)
    IN IF r.err # "nil"
       THEN IF r.err = "NotFound"
            THEN [status |-> Status("UnschedulableAndUnresolvable", r.err),
                  s |-> Nil, write |-> FALSE]
            ELSE [status |-> Status("Error", r.err), s |-> Nil, write |-> FALSE]
       ELSE IF ~needsCheck /\ s.conflictingPVCRefCount = 0
            THEN [status |-> Status("Skip", ""), s |-> Some(s), write |-> FALSE]
            ELSE [status |-> Success, s |-> Some(s), write |-> TRUE]

\* Variant: the exclusive-claim check runs before the disk check.
filterStatusClaimFirst(h, c, p, nodePods) ==
    LET r == getPreFilterState(c)
    IN IF r.err = "nil" /\ satisfyReadWriteOncePod(h, r.s) # Success
       THEN satisfyReadWriteOncePod(h, r.s)
       ELSE IF ~satisfyVolumeConflicts(p, nodePods)
       THEN Status("Unschedulable", ErrReasonDiskConflict)
       ELSE IF r.err # "nil" THEN Status("Error", r.err)
       ELSE Success

\* Variant: a missing PreFilter state passes the exclusive-claim check.
filterStatusMissingPasses(h, c, p, nodePods) ==
    IF ~satisfyVolumeConflicts(p, nodePods)
    THEN Status("Unschedulable", ErrReasonDiskConflict)
    ELSE LET r == getPreFilterState(c)
         IN IF r.err # "nil" THEN Success
            ELSE satisfyReadWriteOncePod(h, r.s)

\* Filter's decision on the cycle state whose slot holds pointer c.
filterStatus(h, c, p, nodePods) ==
    IF ~satisfyVolumeConflicts(p, nodePods)
    THEN Status("Unschedulable", ErrReasonDiskConflict)
    ELSE LET r == getPreFilterState(c)
         IN IF r.err # "nil" THEN Status("Error", r.err)
            ELSE satisfyReadWriteOncePod(h, r.s)

\* ------------------------------------------------------------------ scheduling cycle
\* Volumes of the pod being scheduled, of the pods added and removed in preemption
\* simulation, and of the pods resident on a node.
SchedVolumes == {GCEVolume("d1", FALSE), PVCVolume("c1"), PVCVolume("c2")}
OtherVolumes == {PVCVolume("c1"), PVCVolume("c2")}
ResidentVolumes == {GCEVolume("d1", FALSE), GCEVolume("d2", FALSE)}

SchedPods == {MkPod("ns1", vols) : vols \in SeqsUpTo(SchedVolumes, MaxVolumes)}
OtherPods == {MkPod(ns, vols) : ns \in Namespaces, vols \in SeqsUpTo(OtherVolumes, MaxVolumes)}
ResidentPods == {MkPod("ns1", <<v>>) : v \in ResidentVolumes}
Nodes == SeqsUpTo(ResidentPods, MaxNodePods)
\* In the cycle the claim store and the index hold the same claims in both namespaces.
CycleStores == {store \in Stores : \A n \in ClaimNames : store[<<"ns1", n>>] = store[<<"ns2", n>>]}
CycleIndexes == {index \in Indexes : \A n \in ClaimNames : <<"ns1", n>> \in index <=> <<"ns2", n>> \in index}

NoCycleState ==
    /\ cycleStates = <<NilPtr>>
    /\ heap = [a \in Addrs |-> ZeroState]
    /\ call = [op |-> "none"]

Init ==
    /\ pod \in SchedPods
    /\ NoCycleState

\* PreFilter(cycleState, pod) against a claim store and an index.
preFilter(stores, indexes) ==
    /\ \E store \in stores, index \in indexes :
        LET r == preFilterResult(store, index, pod)
        IN /\ heap' = IF r.write THEN [heap EXCEPT ![1] = r.s[1]] ELSE heap
           /\ cycleStates' = IF r.write THEN [cycleStates EXCEPT ![1] = 1] ELSE cycleStates
           /\ call' = [op |-> "PreFilter", store |-> store, index |-> index,
                       status |-> r.status, s |-> r.s]
    /\ UNCHANGED pod

\* Variant: Filter clears the counter of the state it has read.
filterConsuming(nodes) ==
    /\ \E c \in 1..Len(cycleStates), nodePods \in nodes :
        /\ call' = [op |-> "Filter", cs |-> c, nodePods |-> nodePods,
                    status |-> filterStatus(heap, cycleStates[c], pod, nodePods)]
        /\ heap' = IF cycleStates[c] = NilPtr THEN heap
                   ELSE [heap EXCEPT ![cycleStates[c]].conflictingPVCRefCount = 0]
    /\ UNCHANGED <<pod, cycleStates>>

\* Filter(cycleState, pod, nodeInfo) on cycle state c.
filter(nodes) ==
    /\ \E c \in 1..Len(cycleStates), nodePods \in nodes :
        call' = [op |-> "Filter", cs |-> c, nodePods |-> nodePods,
                 status |-> filterStatus(heap, cycleStates[c], pod, nodePods)]
    /\ UNCHANGED <<pod, cycleStates, heap>>

\* AddPod (multiplier 1) and RemovePod (multiplier -1) on cycle state c. The call
\* record keeps the counter before the call, and (undone) the counter before the
\* preceding call when that was the opposite call, with the same pod on the same
\* cycle state.
update(op, multiplier, c, podInfo) ==
    LET r == getPreFilterState(cycleStates[c])
    IN IF r.err # "nil"
       THEN /\ call' = [op |-> op, cs |-> c, podInfo |-> podInfo, before |-> Nil,
                        undone |-> Nil, status |-> Status("Error", r.err)]
            /\ UNCHANGED <<pod, cycleStates, heap>>
       ELSE LET h == updateWithPod(heap, r.s, podInfo, multiplier)
                opposite == IF op = "AddPod" THEN "RemovePod" ELSE "AddPod"
            IN /\ h[r.s].conflictingPVCRefCount \in (0 - MaxRefCount)..MaxRefCount
               /\ heap' = h
               /\ call' = [op |-> op, cs |-> c, podInfo |-> podInfo,
                           before |-> Some(heap[r.s].conflictingPVCRefCount),
                           undone |-> IF call.op = opposite
                                      THEN IF call.cs = c /\ call.podInfo = podInfo
                                           THEN call.before ELSE Nil
                                      ELSE Nil,
                           status |-> Success]
               /\ UNCHANGED <<pod, cycleStates>>

\* PreFilter runs once, first in the scheduling cycle.
PreFilter ==
    /\ call.op = "none"
    /\ preFilter(CycleStores, CycleIndexes)

Filter ==
    /\ call.op # "none"
    /\ filter(Nodes)

AddPod ==
    /\ call.op # "none"
    /\ \E c \in 1..Len(cycleStates), podInfo \in OtherPods : update("AddPod", 1, c, podInfo)

RemovePod ==
    /\ call.op # "none"
    /\ \E c \in 1..Len(cycleStates), podInfo \in OtherPods : update("RemovePod", -1, c, podInfo)

\* CycleState.Clone: the copy's slot holds the Clone of the original's state.
CloneCycleState ==
    /\ call.op # "none"
    /\ LET r == Clone(heap, cycleStates[1], 2)
       IN /\ heap' = r.heap
          /\ cycleStates' = <<cycleStates[1], r.ret>>
          /\ call' = [op |-> "Clone", ret |-> r.ret]
    /\ UNCHANGED pod

Next == PreFilter \/ Filter \/ AddPod \/ RemovePod \/ CloneCycleState

Spec == Init /\ [][Next]_vars

\* ------------------------------------------------------------------ PreFilter alone
\* PreFilter of pods with volumes of every kind, against every claim store and index.
AnyKindVolumes ==
    {GCEVolume("d1", FALSE), AWSVolume("a1", FALSE), ISCSIVolume("q1", FALSE),
     RBDVolume(<<"m1">>, "p1", "i1", FALSE), PVCVolume("c1"), PVCVolume("c2"), NoSource}
AnyKindPods == {MkPod(ns, vols) : ns \in Namespaces, vols \in SeqsUpTo(AnyKindVolumes, MaxVolumes)}

PreFilterInit ==
    /\ pod \in AnyKindPods
    /\ NoCycleState

PreFilterAny ==
    /\ call.op = "none"
    /\ preFilter(Stores, Indexes)

PreFilterSpec == PreFilterInit /\ [][PreFilterAny]_vars

\* ------------------------------------------------------------------ conflict matcher alone
Monitors == SeqsUpTo({"m1", "m2"}, MaxMonitors)
MatchVolumes ==
    {GCEVolume(n, ro) : n \in {"d1", "d2"}, ro \in BOOLEAN}
    \cup {AWSVolume(n, ro) : n \in {"a1", "a2"}, ro \in BOOLEAN}
    \cup {ISCSIVolume(n, ro) : n \in {"q1", "q2"}, ro \in BOOLEAN}
    \cup {RBDVolume(m, pl, im, ro) : m \in Monitors, pl \in {"p1", "p2"},
                                     im \in {"i1", "i2"}, ro \in BOOLEAN}
    \cup {PVCVolume("c1"), NoSource}
\* Volumes of the candidate pod and of the resident pods of the pod-vs-node check.
CandidateVolumes == {GCEVolume("d1", FALSE), GCEVolume("d1", TRUE), NoSource}
NodeVolumes == {GCEVolume("d1", FALSE), GCEVolume("d1", TRUE), AWSVolume("a1", FALSE)}
CandidatePods == {MkPod("ns1", vols) : vols \in SeqsUpTo(CandidateVolumes, MaxVolumes)}
NodePodSets == SeqsUpTo({MkPod("ns1", vols) : vols \in SeqsUpTo(NodeVolumes, MaxVolumes)}, MaxNodePods)

MatcherInit ==
    /\ pod \in CandidatePods
    /\ NoCycleState

\* isVolumeConflict(volume, pod) for a pod with the single volume existing.
IsVolumeConflictCall ==
    /\ call.op = "none"
    /\ \E volume \in MatchVolumes, existing \in MatchVolumes :
        call' = [op |-> "isVolumeConflict", volume |-> volume, existing |-> existing,
                 ret |-> isVolumeConflict(volume, MkPod("ns1", <<existing>>))]
    /\ UNCHANGED <<pod, cycleStates, heap>>

HaveOverlapCall ==
    /\ call.op = "none"
    /\ \E a1 \in Monitors, a2 \in Monitors :
        call' = [op |-> "haveOverlap", a1 |-> a1, a2 |-> a2, ret |-> haveOverlap(a1, a2)]
    /\ UNCHANGED <<pod, cycleStates, heap>>

\* Filter of the candidate pod on a node, with no PreFilter state in the cycle state.
FilterNode ==
    /\ call.op = "none"
    /\ filter(NodePodSets)

MatcherNext == IsVolumeConflictCall \/ HaveOverlapCall \/ FilterNode

MatcherSpec == MatcherInit /\ [][MatcherNext]_vars

\* ------------------------------------------------------------------ requeue predicates
\* An event payload: a pod, or an object of another type.
PodObject(p) == [kind |-> "Pod", pod |-> p]
OtherObject == [kind |-> "Node", pod |-> MkPod("", <<>>)]

\* util.As[*v1.Pod](oldObj, nil): the typed object, or an error for another type.
AsPod(obj) ==
    IF obj.kind = "Pod" THEN [pod |-> obj.pod, err |-> "nil"]
    ELSE [pod |-> obj.pod, err |-> "unexpected objects"]

\* framework.NewNodeInfo(pods...).Pods
NewNodeInfo(p) == <<p>>

\* Variant: the claims of the two pods are not compared.
isSchedulableAfterPodDeletedDisksOnly(store, p, oldObj) ==
    LET as == AsPod(oldObj)
        deletedPod == as.pod
        new == readWriteOncePodPVCsForPod(store, p, FALSE)
        deleted == readWriteOncePodPVCsForPod(store, deletedPod, TRUE)
    IN IF as.err # "nil"
       THEN [hint |-> "Queue", err |-> "unexpected objects in isSchedulableAfterPodDeleted"]
       ELSE IF deletedPod.Namespace # p.Namespace
       THEN [hint |-> "QueueSkip", err |-> "nil"]
       ELSE IF new.err # "nil"
       THEN IF new.err = "NotFound"
            THEN [hint |-> "QueueSkip", err |-> "nil"]
            ELSE [hint |-> "Queue", err |-> new.err]
       ELSE IF deleted.err # "nil"
       THEN [hint |-> "Queue", err |-> deleted.err]
       ELSE IF ~satisfyVolumeConflicts(p, NewNodeInfo(deletedPod))
       THEN [hint |-> "Queue", err |-> "nil"]
       ELSE [hint |-> "QueueSkip", err |-> "nil"]

\* Variant: the deletion requeues when the deleted pod's disks do not conflict.
isSchedulableAfterPodDeletedInverted(store, p, oldObj) ==
    LET as == AsPod(oldObj)
        deletedPod == as.pod
        new == readWriteOncePodPVCsForPod(store, p, FALSE)
        deleted == readWriteOncePodPVCsForPod(store, deletedPod, TRUE)
    IN IF as.err # "nil"
       THEN [hint |-> "Queue", err |-> "unexpected objects in isSchedulableAfterPodDeleted"]
       ELSE IF deletedPod.Namespace # p.Namespace
       THEN [hint |-> "QueueSkip", err |-> "nil"]
       ELSE IF new.err # "nil"
       THEN IF new.err = "NotFound"
            THEN [hint |-> "QueueSkip", err |-> "nil"]
            ELSE [hint |-> "Queue", err |-> new.err]
       ELSE IF deleted.err # "nil"
       THEN [hint |-> "Queue", err |-> deleted.err]
       ELSE IF \E pvc \in deleted.pvcs : pvc \in new.pvcs
       THEN [hint |-> "Queue", err |-> "nil"]
       ELSE IF satisfyVolumeConflicts(p, NewNodeInfo(deletedPod))
       THEN [hint |-> "Queue", err |-> "nil"]
       ELSE [hint |-> "QueueSkip", err |-> "nil"]

\* Variant: a claim of the deleted pod that is not found ends the resolution.
isSchedulableAfterPodDeletedStrictDeleted(store, p, oldObj) ==
    LET as == AsPod(oldObj)
        deletedPod == as.pod
        new == readWriteOncePodPVCsForPod(store, p, FALSE)
        deleted == readWriteOncePodPVCsForPod(store, deletedPod, FALSE)
    IN IF as.err # "nil"
       THEN [hint |-> "Queue", err |-> "unexpected objects in isSchedulableAfterPodDeleted"]
       ELSE IF deletedPod.Namespace # p.Namespace
       THEN [hint |-> "QueueSkip", err |-> "nil"]
       ELSE IF new.err # "nil"
       THEN IF new.err = "NotFound"
            THEN [hint |-> "QueueSkip", err |-> "nil"]
            ELSE [hint |-> "Queue", err |-> new.err]
       ELSE IF deleted.err # "nil"
       THEN [hint |-> "Queue", err |-> deleted.err]
       ELSE IF \E pvc \in deleted.pvcs : pvc \in new.pvcs
       THEN [hint |-> "Queue", err |-> "nil"]
       ELSE IF ~satisfyVolumeConflicts(p, NewNodeInfo(deletedPod))
       THEN [hint |-> "Queue", err |-> "nil"]
       ELSE [hint |-> "QueueSkip", err |-> "nil"]

isSchedulableAfterPodDeleted(store, p, oldObj) ==
    LET as == AsPod(oldObj)
        deletedPod == as.pod
        new == readWriteOncePodPVCsForPod(store, p, FALSE)
        deleted == readWriteOncePodPVCsForPod(store, deletedPod, TRUE)
    IN IF as.err # "nil"
       THEN [hint |-> "Queue", err |-> "unexpected objects in isSchedulableAfterPodDeleted"]
       ELSE IF deletedPod.Namespace # p.Namespace
       THEN [hint |-> "QueueSkip", err |-> "nil"]
       ELSE IF new.err # "nil"
       THEN IF new.err = "NotFound"
            THEN [hint |-> "QueueSkip", err |-> "nil"]
            ELSE [hint |-> "Queue", err |-> new.err]
       ELSE IF deleted.err # "nil"
       THEN [hint |-> "Queue", err |-> deleted.err]
       ELSE IF \E pvc \in deleted.pvcs : pvc \in new.pvcs
       THEN [hint |-> "Queue", err |-> "nil"]
       ELSE IF ~satisfyVolumeConflicts(p, NewNodeInfo(deletedPod))
       THEN [hint |-> "Queue", err |-> "nil"]
       ELSE [hint |-> "QueueSkip", err |-> "nil"]

\* A claim event payload: a claim, or an object of another type.
PVCObject(ns, name) == [kind |-> "PersistentVolumeClaim", Namespace |-> ns, Name |-> name]
OtherClaimObject == [kind |-> "Node", Namespace |-> "", Name |-> ""]

\* util.As[*v1.PersistentVolumeClaim](oldObj, newObj): each object is nil or present;
\* a present object of another type is an error, a nil object stays a nil pointer.
AsPVC(oldObj, newObj) ==
    IF newObj # Nil /\ newObj[1].kind # "PersistentVolumeClaim"
    THEN [old |-> Nil, new |-> Nil, err |-> "unexpected objects"]
    ELSE IF oldObj # Nil /\ oldObj[1].kind # "PersistentVolumeClaim"
    THEN [old |-> Nil, new |-> newObj, err |-> "unexpected objects"]
    ELSE [old |-> oldObj, new |-> newObj, err |-> "nil"]

\* The loop of isSchedulableAfterPersistentVolumeClaimChange over the pod's volumes:
\* the names collected, the error that ended it, and the number of lookups made.
RECURSIVE claimNamesLoop(_, _, _, _, _)
claimNamesLoop(store, p, i, pvcs, gets) ==
    IF i > Len(p.Volumes)
    THEN [pvcs |-> pvcs, err |-> "nil", gets |-> gets]
    ELSE LET volume == p.Volumes[i]
         IN IF volume.PersistentVolumeClaim = Nil
            THEN claimNamesLoop(store, p, i + 1, pvcs, gets)
            ELSE LET got == Get(store, p.Namespace, volume.PersistentVolumeClaim[1].ClaimName)
                 IN IF got.err # "nil"
                    THEN [pvcs |-> {}, err |-> got.err, gets |-> gets + 1]
                    ELSE claimNamesLoop(store, p, i + 1, pvcs \cup {got.pvc.Name}, gets + 1)

\* Variant: a claim of the pod that is not found is passed over.
isSchedulableAfterPersistentVolumeClaimChangeIgnoreNotFound(store, p, oldObj, newObj) ==
    LET as == AsPVC(oldObj, newObj)
        names == {n \in ClaimNames : \E i \in 1..Len(p.Volumes) :
                    /\ p.Volumes[i].PersistentVolumeClaim # Nil
                    /\ p.Volumes[i].PersistentVolumeClaim[1].ClaimName = n}
    IN IF as.err # "nil"
       THEN [hint |-> "Queue", gets |-> 0,
             err |-> "unexpected objects in isSchedulableAfterPersistentVolumeClaimChange"]
       ELSE IF as.old # Nil
       THEN [hint |-> "QueueSkip", err |-> "nil", gets |-> 0]
       ELSE IF as.new[1].Namespace # p.Namespace
       THEN [hint |-> "QueueSkip", err |-> "nil", gets |-> 0]
       ELSE IF as.new[1].Name \in names
       THEN [hint |-> "Queue", err |-> "nil", gets |-> Cardinality(names)]
       ELSE [hint |-> "QueueSkip", err |-> "nil", gets |-> Cardinality(names)]

\* Variant: an update is told from a creation only after the pod's claims are resolved.
isSchedulableAfterPersistentVolumeClaimChangeLateUpdateCheck(store, p, oldObj, newObj) ==
    LET as == AsPVC(oldObj, newObj)
        r == claimNamesLoop(store, p, 1, {}, 0)
    IN IF as.err # "nil"
       THEN [hint |-> "Queue", gets |-> 0,
             err |-> "unexpected objects in isSchedulableAfterPersistentVolumeClaimChange"]
       ELSE IF as.new[1].Namespace # p.Namespace
       THEN [hint |-> "QueueSkip", err |-> "nil", gets |-> 0]
       ELSE IF r.err # "nil"
       THEN IF r.err = "NotFound"
            THEN [hint |-> "QueueSkip", err |-> "nil", gets |-> r.gets]
            ELSE [hint |-> "Queue", err |-> r.err, gets |-> r.gets]
       ELSE IF as.old = Nil /\ as.new[1].Name \in r.pvcs
       THEN [hint |-> "Queue", err |-> "nil", gets |-> r.gets]
       ELSE [hint |-> "QueueSkip", err |-> "nil", gets |-> r.gets]

\* Variant: a payload of another type is passed over without an error.
isSchedulableAfterPersistentVolumeClaimChangeDropsUnexpected(store, p, oldObj, newObj) ==
    LET as == AsPVC(oldObj, newObj)
        r == claimNamesLoop(store, p, 1, {}, 0)
    IN IF as.err # "nil"
       THEN [hint |-> "QueueSkip", err |-> "nil", gets |-> 0]
       ELSE IF as.old # Nil
       THEN [hint |-> "QueueSkip", err |-> "nil", gets |-> 0]
       ELSE IF as.new[1].Namespace # p.Namespace
       THEN [hint |-> "QueueSkip", err |-> "nil", gets |-> 0]
       ELSE IF r.err # "nil"
       THEN IF r.err = "NotFound"
            THEN [hint |-> "QueueSkip", err |-> "nil", gets |-> r.gets]
            ELSE [hint |-> "Queue", err |-> r.err, gets |-> r.gets]
       ELSE IF as.old = Nil /\ as.new[1].Name \in r.pvcs
       THEN [hint |-> "Queue", err |-> "nil", gets |-> r.gets]
       ELSE [hint |-> "QueueSkip", err |-> "nil", gets |-> r.gets]

\* The hint, the error, and the number of claim store lookups made (gets).
isSchedulableAfterPersistentVolumeClaimChange(store, p, oldObj, newObj) ==
    LET as == AsPVC(oldObj, newObj)
        r == claimNamesLoop(store, p, 1, {}, 0)
    IN IF as.err # "nil"
       THEN [hint |-> "Queue", gets |-> 0,
             err |-> "unexpected objects in isSchedulableAfterPersistentVolumeClaimChange"]
       ELSE IF as.old # Nil
       THEN [hint |-> "QueueSkip", err |-> "nil", gets |-> 0]
       ELSE IF as.new[1].Namespace # p.Namespace
       THEN [hint |-> "QueueSkip", err |-> "nil", gets |-> 0]
       ELSE IF r.err # "nil"
       THEN IF r.err = "NotFound"
            THEN [hint |-> "QueueSkip", err |-> "nil", gets |-> r.gets]
            ELSE [hint |-> "Queue", err |-> r.err, gets |-> r.gets]
       ELSE IF as.old = Nil /\ as.new[1].Name \in r.pvcs
       THEN [hint |-> "Queue", err |-> "nil", gets |-> r.gets]
       ELSE [hint |-> "QueueSkip", err |-> "nil", gets |-> r.gets]

\* The blocked pod and the deleted pod.
HintVolumes == {GCEVolume("d1", FALSE), PVCVolume("c1"), PVCVolume("c2")}
HintPods == {MkPod(ns, vols) : ns \in Namespaces, vols \in SeqsUpTo(HintVolumes, MaxVolumes)}
DeletedObjects == {PodObject(p) : p \in HintPods} \cup {OtherObject}

HintInit ==
    /\ pod \in HintPods
    /\ NoCycleState

\* The Pod/Delete event reaches the queueing hint of the blocked pod.
PodDeleted ==
    /\ call.op = "none"
    /\ \E store \in Stores, oldObj \in DeletedObjects :
        LET r == isSchedulableAfterPodDeleted(store, pod, oldObj)
        IN call' = [op |-> "PodDeleted", store |-> store, oldObj |-> oldObj,
                    hint |-> r.hint, err |-> r.err]
    /\ UNCHANGED <<pod, cycleStates, heap>>

\* The payloads of a PersistentVolumeClaim Add or Update event: the new object is
\* always present, the old object is present on an update.
ClaimObjects == {PVCObject(k[1], k[2]) : k \in Keys} \cup {OtherClaimObject}
OldClaimObjects == {Nil} \cup {Some(o) : o \in ClaimObjects}
NewClaimObjects == {Some(o) : o \in ClaimObjects}

\* The PersistentVolumeClaim Add/Update event reaches the queueing hint of the blocked pod.
PersistentVolumeClaimChanged ==
    /\ call.op = "none"
    /\ \E store \in Stores, oldObj \in OldClaimObjects, newObj \in NewClaimObjects :
        LET r == isSchedulableAfterPersistentVolumeClaimChange(store, pod, oldObj, newObj)
        IN call' = [op |-> "ClaimChanged", store |-> store, oldObj |-> oldObj,
                    newObj |-> newObj, hint |-> r.hint, err |-> r.err, gets |-> r.gets]
    /\ UNCHANGED <<pod, cycleStates, heap>>

HintNext == PodDeleted \/ PersistentVolumeClaimChanged

HintSpec == HintInit /\ [][HintNext]_vars

\* ------------------------------------------------------------------ readers of the cycle state
\* The scheduling cycle of one cycle state, with the two queueing hints called for
\* the same pod while its PreFilter state exists.
CycleDeletedObjects == {PodObject(p) : p \in {q \in OtherPods : Len(q.Volumes) <= 1}}
CycleOldClaimObjects == {Nil, Some(PVCObject("ns1", "c1"))}
CycleNewClaimObjects == {Some(PVCObject("ns1", n)) : n \in ClaimNames}

PodDeletedInCycle ==
    /\ call.op # "none"
    /\ \E store \in CycleStores, oldObj \in CycleDeletedObjects :
        LET r == isSchedulableAfterPodDeleted(store, pod, oldObj)
        IN call' = [op |-> "PodDeleted", store |-> store, oldObj |-> oldObj,
                    hint |-> r.hint, err |-> r.err]
    /\ UNCHANGED <<pod, cycleStates, heap>>

PersistentVolumeClaimChangedInCycle ==
    /\ call.op # "none"
    /\ \E store \in CycleStores, oldObj \in CycleOldClaimObjects, newObj \in CycleNewClaimObjects :
        LET r == isSchedulableAfterPersistentVolumeClaimChange(store, pod, oldObj, newObj)
        IN call' = [op |-> "ClaimChanged", store |-> store, oldObj |-> oldObj,
                    newObj |-> newObj, hint |-> r.hint, err |-> r.err, gets |-> r.gets]
    /\ UNCHANGED <<pod, cycleStates, heap>>

ReadersNext ==
    PreFilter \/ Filter \/ AddPod \/ RemovePod \/ PodDeletedInCycle
    \/ PersistentVolumeClaimChangedInCycle

ReadersSpec == Init /\ [][ReadersNext]_vars

\* ------------------------------------------------------------------ properties
\* The backend kind of a volume.
KindOf(v) ==
    IF v.GCEPersistentDisk # Nil THEN "gce"
    ELSE IF v.AWSElasticBlockStore # Nil THEN "aws"
    ELSE IF v.ISCSI # Nil THEN "iscsi"
    ELSE IF v.RBD # Nil THEN "rbd"
    ELSE IF v.PersistentVolumeClaim # Nil THEN "pvc"
    ELSE "other"
ConflictKinds == {"gce", "aws", "iscsi", "rbd"}

\* The conflict rule of each backend kind, for two volumes v and e.
ConflictRule(v, e) ==
    /\ KindOf(v) = KindOf(e)
    /\ CASE KindOf(v) = "gce" ->
              /\ v.GCEPersistentDisk[1].PDName = e.GCEPersistentDisk[1].PDName
              /\ ~(v.GCEPersistentDisk[1].ReadOnly /\ e.GCEPersistentDisk[1].ReadOnly)
         [] KindOf(v) = "aws" ->
              v.AWSElasticBlockStore[1].VolumeID = e.AWSElasticBlockStore[1].VolumeID
         [] KindOf(v) = "iscsi" ->
              /\ v.ISCSI[1].IQN = e.ISCSI[1].IQN
              /\ ~(v.ISCSI[1].ReadOnly /\ e.ISCSI[1].ReadOnly)
         [] KindOf(v) = "rbd" ->
              /\ SetOf(v.RBD[1].CephMonitors) \cap SetOf(e.RBD[1].CephMonitors) # {}
              /\ v.RBD[1].RBDPool = e.RBD[1].RBDPool
              /\ v.RBD[1].RBDImage = e.RBD[1].RBDImage
              /\ ~(v.RBD[1].ReadOnly /\ e.RBD[1].ReadOnly)
         [] OTHER -> FALSE

\* Some conflict-relevant volume of p conflicts with a volume of a pod in nodePods.
DiskConflict(p, nodePods) ==
    \E i \in 1..Len(p.Volumes), j \in 1..Len(nodePods) :
        \E k \in 1..Len(nodePods[j].Volumes) :
            /\ KindOf(p.Volumes[i]) \in ConflictKinds
            /\ ConflictRule(p.Volumes[i], nodePods[j].Volumes[k])

DiskConflictStatus == Status("Unschedulable", ErrReasonDiskConflict)
ClaimConflictStatus == Status("Unschedulable", ErrReasonReadWriteOncePodConflict)

\* The claim names the claim-backed volumes of p reference.
ClaimRefs(p) ==
    {n \in ClaimNames : \E i \in 1..Len(p.Volumes) :
        /\ KindOf(p.Volumes[i]) = "pvc"
        /\ p.Volumes[i].PersistentVolumeClaim[1].ClaimName = n}
\* Every claim p references is found, without error, in p's namespace.
AllResolve(store, p) == \A n \in ClaimRefs(p) : store[<<p.Namespace, n>>].err = "nil"
\* The claims p references that resolve and list the ReadWriteOncePod access mode.
ExclusiveClaims(store, p) ==
    {n \in ClaimRefs(p) :
        /\ store[<<p.Namespace, n>>].err = "nil"
        /\ ReadWriteOncePod \in SetOf(store[<<p.Namespace, n>>].AccessModes)}
\* The number of claim-backed volumes of p whose claim name is in pvcs.
MatchCount(p, pvcs) ==
    Cardinality({i \in 1..Len(p.Volumes) :
        /\ KindOf(p.Volumes[i]) = "pvc"
        /\ p.Volumes[i].PersistentVolumeClaim[1].ClaimName \in pvcs})
\* The PreFilter state of cycle state c.
EntryOf(c) == heap[cycleStates[c]]
HasEntry(c) == cycleStates[c] # NilPtr

\* C1: with a PreFilter state in the cycle state, Filter rejects with the
\* disk-conflict reason when a conflict-relevant volume of the pod conflicts with
\* a volume of a resident pod, otherwise with the exclusive-claim reason when
\* conflictingPVCRefCount > 0, and otherwise admits.
C1_FilterDecision ==
    (call.op = "Filter" /\ HasEntry(call.cs)) =>
        call.status =
            IF DiskConflict(pod, call.nodePods) THEN DiskConflictStatus
            ELSE IF EntryOf(call.cs).conflictingPVCRefCount > 0 THEN ClaimConflictStatus
            ELSE Success

C1_Witness ==
    /\ call.op = "Filter"
    /\ HasEntry(call.cs)
    /\ DiskConflict(pod, call.nodePods)
    /\ EntryOf(call.cs).conflictingPVCRefCount > 0
    /\ call.status = DiskConflictStatus

\* C2: when every claim the pod references resolves, the state PreFilter computes
\* holds exactly the referenced claims that list ReadWriteOncePod in the pod's
\* namespace, and counts those of them the index reports in use under
\* namespace/name; the count is at most the size of the set.
C2_PreFilterState ==
    (call.op = "PreFilter" /\ AllResolve(call.store, pod)) =>
        /\ call.s # Nil
        /\ call.s[1].readWriteOncePodPVCs = ExclusiveClaims(call.store, pod)
        /\ call.s[1].conflictingPVCRefCount =
              Cardinality({n \in ExclusiveClaims(call.store, pod) :
                              <<pod.Namespace, n>> \in call.index})
        /\ call.s[1].conflictingPVCRefCount <= Cardinality(call.s[1].readWriteOncePodPVCs)

C2_Witness ==
    /\ call.op = "PreFilter"
    /\ AllResolve(call.store, pod)
    /\ call.s # Nil
    /\ Cardinality(call.s[1].readWriteOncePodPVCs) = 1
    /\ ClaimRefs(pod) = ClaimNames
    /\ call.s[1].conflictingPVCRefCount = 0
    /\ \E n \in call.s[1].readWriteOncePodPVCs, ns \in Namespaces : <<ns, n>> \in call.index

\* C3: in every state after PreFilter and any AddPod, RemovePod and Clone calls,
\* conflictingPVCRefCount of a PreFilter state is at least 0 and at most the
\* number of names in readWriteOncePodPVCs.
C3_CountInRange ==
    \A c \in 1..Len(cycleStates) :
        HasEntry(c) =>
            /\ EntryOf(c).conflictingPVCRefCount >= 0
            /\ EntryOf(c).conflictingPVCRefCount <= Cardinality(EntryOf(c).readWriteOncePodPVCs)

\* C4: AddPod and RemovePod adjust conflictingPVCRefCount by sign * (number of the
\* pod's claim-backed volumes whose claim is in readWriteOncePodPVCs), and a call
\* that follows the opposite call with the same pod on the same state leaves the
\* counter at its value before the pair.
C4_AddRemoveRestores ==
    (call.op \in {"AddPod", "RemovePod"} /\ call.before # Nil) =>
        LET sign == IF call.op = "AddPod" THEN 1 ELSE -1
            n == MatchCount(call.podInfo, EntryOf(call.cs).readWriteOncePodPVCs)
        IN /\ EntryOf(call.cs).conflictingPVCRefCount = call.before[1] + sign * n
           /\ call.undone # Nil => EntryOf(call.cs).conflictingPVCRefCount = call.undone[1]

C4_Witness ==
    /\ call.op = "RemovePod"
    /\ call.undone # Nil
    /\ MatchCount(call.podInfo, EntryOf(call.cs).readWriteOncePodPVCs) = 2
    /\ EntryOf(call.cs).conflictingPVCRefCount = call.undone[1]

\* C5: Clone yields a new state with the same readWriteOncePodPVCs and the same
\* counter, Clone of an absent state is nil, and AddPod / RemovePod on either of
\* the two cycle states leaves the counter of the other unchanged.
C5_CloneIndependent ==
    [][/\ call'.op = "Clone" =>
            IF cycleStates[1] = NilPtr
            THEN cycleStates'[2] = NilPtr
            ELSE /\ cycleStates'[2] # NilPtr
                 /\ cycleStates'[2] # cycleStates'[1]
                 /\ heap'[cycleStates'[2]] = heap[cycleStates[1]]
                 /\ heap'[cycleStates'[1]] = heap[cycleStates[1]]
       /\ (call'.op \in {"AddPod", "RemovePod"} /\ Len(cycleStates) = 2) =>
            \A c \in {1, 2} \ {call'.cs} :
                cycleStates[c] # NilPtr =>
                    /\ cycleStates'[c] = cycleStates[c]
                    /\ heap'[cycleStates'[c]] = heap[cycleStates[c]]
      ]_vars

C5_Witness ==
    /\ Len(cycleStates) = 2
    /\ HasEntry(1)
    /\ HasEntry(2)
    /\ call.op = "AddPod"
    /\ call.cs = 2
    /\ EntryOf(2).readWriteOncePodPVCs = EntryOf(1).readWriteOncePodPVCs
    /\ EntryOf(2).conflictingPVCRefCount > EntryOf(1).conflictingPVCRefCount

\* C6: when claim resolution succeeds, PreFilter returns Skip and writes no state
\* exactly when the pod has no GCE PD, AWS EBS, RBD or ISCSI volume and the
\* computed conflictingPVCRefCount is 0; otherwise it writes the computed state
\* and returns success.
C6_PreFilterSkip ==
    (call.op = "PreFilter" /\ AllResolve(call.store, pod)) =>
        /\ call.s # Nil
        /\ IF /\ \A i \in 1..Len(pod.Volumes) : KindOf(pod.Volumes[i]) \notin ConflictKinds
              /\ call.s[1].conflictingPVCRefCount = 0
           THEN call.status.code = "Skip" /\ ~HasEntry(1)
           ELSE call.status = Success /\ HasEntry(1) /\ EntryOf(1) = call.s[1]

C6_Witness ==
    /\ call.op = "PreFilter"
    /\ AllResolve(call.store, pod)
    /\ call.status.code = "Skip"
    /\ ~HasEntry(1)
    /\ call.s # Nil
    /\ call.s[1].readWriteOncePodPVCs # {}

\* C7 as stated: with no PreFilter state in the cycle state and no disk conflict,
\* Filter admits the pod.
C7_MissingStateAdmits ==
    (call.op = "Filter" /\ ~HasEntry(call.cs) /\ ~DiskConflict(pod, call.nodePods)) =>
        call.status = Success

\* C7: with no PreFilter state in the cycle state, Filter rejects with the
\* disk-conflict reason on a disk conflict and otherwise returns an Error status;
\* it never admits.
C7_MissingStateIsError ==
    (call.op = "Filter" /\ ~HasEntry(call.cs)) =>
        IF DiskConflict(pod, call.nodePods)
        THEN call.status = DiskConflictStatus
        ELSE call.status.code = "Error"

C7_Witness ==
    /\ call.op = "Filter"
    /\ ~HasEntry(call.cs)
    /\ ~DiskConflict(pod, call.nodePods)
    /\ call.nodePods # <<>>
    /\ call.status.code = "Error"

\* C8: isVolumeConflict on a single existing volume reports a conflict exactly
\* when the two volumes are of the same kind and that kind's rule holds: GCE PD,
\* same disk name and not both read-only; AWS EBS, same volume id; ISCSI, same
\* IQN and not both read-only; RBD, a shared monitor, same pool, same image and
\* not both read-only.
C8_ConflictRules ==
    call.op = "isVolumeConflict" => call.ret = ConflictRule(call.volume, call.existing)

C8_Witness ==
    /\ call.op = "isVolumeConflict"
    /\ KindOf(call.volume) = "aws"
    /\ call.volume.AWSElasticBlockStore[1].ReadOnly
    /\ KindOf(call.existing) = "aws"
    /\ call.existing.AWSElasticBlockStore[1].ReadOnly
    /\ call.ret

\* C9: satisfyVolumeConflicts fails, and Filter rejects with the disk-conflict
\* reason, exactly when a conflict-relevant volume of the candidate pod conflicts
\* with a volume of a pod resident on the node.
C9_DiskCheck ==
    call.op = "Filter" =>
        /\ (call.status = DiskConflictStatus) <=> DiskConflict(pod, call.nodePods)
        /\ satisfyVolumeConflicts(pod, call.nodePods) <=> ~DiskConflict(pod, call.nodePods)

C9_Witness ==
    /\ call.op = "Filter"
    /\ Len(call.nodePods) = 2
    /\ ~DiskConflict(pod, <<call.nodePods[1]>>)
    /\ Len(call.nodePods[2].Volumes) = 2
    /\ ~DiskConflict(pod, <<MkPod("ns1", <<call.nodePods[2].Volumes[1]>>)>>)
    /\ Len(pod.Volumes) = 2
    /\ KindOf(pod.Volumes[1]) = "other"
    /\ call.status = DiskConflictStatus

\* The deleted pod of a pod-deleted call, in the blocked pod's namespace, shares
\* an exclusive-access claim with the blocked pod, whose claims all resolve.
SharedClaimDeleted ==
    /\ call.op = "PodDeleted"
    /\ call.oldObj.kind = "Pod"
    /\ call.oldObj.pod.Namespace = pod.Namespace
    /\ AllResolve(call.store, pod)
    /\ ExclusiveClaims(call.store, pod) \cap ExclusiveClaims(call.store, call.oldObj.pod) # {}
\* The lookup of a claim the deleted pod references fails with an error other than not-found.
DeletedLookupFails ==
    \E n \in ClaimRefs(call.oldObj.pod) :
        call.store[<<call.oldObj.pod.Namespace, n>>].err = "Error"

\* C10 as stated: when the deleted pod shares an exclusive-access claim with the
\* blocked pod, isSchedulableAfterPodDeleted returns Queue with no error.
C10_SharedClaimQueueNoError ==
    SharedClaimDeleted => (call.hint = "Queue" /\ call.err = "nil")

\* C10: when the deleted pod shares an exclusive-access claim with the blocked
\* pod, isSchedulableAfterPodDeleted returns Queue; the error is nil unless the
\* lookup of a claim of the deleted pod fails with an error other than not-found,
\* and then it is that error.
C10_SharedClaimQueue ==
    SharedClaimDeleted =>
        /\ call.hint = "Queue"
        /\ call.err = IF DeletedLookupFails THEN "Error" ELSE "nil"

C10_Witness ==
    /\ SharedClaimDeleted
    /\ ~DiskConflict(pod, <<call.oldObj.pod>>)
    /\ ~DeletedLookupFails
    /\ \E n \in ClaimRefs(call.oldObj.pod) :
          call.store[<<call.oldObj.pod.Namespace, n>>].err = "NotFound"
    /\ call.hint = "Queue"
    /\ call.err = "nil"

\* The claims in use by the pods resident on a node, as the exclusive-usage index keys them.
ClusterIndex(nodePods) ==
    UNION {{nodePods[j].Namespace} \X ClaimRefs(nodePods[j]) : j \in 1..Len(nodePods)}
\* The plugin's verdict on pod p for a node holding nodePods: PreFilter against the
\* index of the node's pods, then Filter on the state PreFilter wrote. A Skip from
\* PreFilter leaves Filter out and admits.
FilterAfterPreFilter(store, p, nodePods) ==
    LET r == preFilterResult(store, ClusterIndex(nodePods), p)
    IN IF r.status.code = "Skip" THEN Success
       ELSE IF r.status # Success THEN r.status
       ELSE filterStatus([a \in Addrs |-> r.s[1]], 1, p, nodePods)
\* Pod p is rejected on the node holding only d and admitted once d is gone.
DeletionAdmits(store, p, d) ==
    /\ FilterAfterPreFilter(store, p, <<d>>) # Success
    /\ FilterAfterPreFilter(store, p, <<>>) = Success

\* C11: whenever the deletion of pod D turns the Filter verdict on the blocked pod
\* from reject to admit, isSchedulableAfterPodDeleted returns Queue, in whatever
\* namespace D lives.
C11_RequeueSound ==
    (/\ call.op = "PodDeleted"
     /\ call.oldObj.kind = "Pod"
     /\ DeletionAdmits(call.store, pod, call.oldObj.pod)) =>
        call.hint = "Queue"


\* The error of the first lookup that fails when the claims of p's claim-backed
\* volumes are looked up in volume order; "nil" when none fails.
FirstLookupError(store, p) ==
    LET failing == {i \in 1..Len(p.Volumes) :
                      /\ KindOf(p.Volumes[i]) = "pvc"
                      /\ store[<<p.Namespace, p.Volumes[i].PersistentVolumeClaim[1].ClaimName>>].err # "nil"}
        first == CHOOSE i \in failing : \A j \in failing : i <= j
    IN IF failing = {} THEN "nil"
       ELSE store[<<p.Namespace, p.Volumes[first].PersistentVolumeClaim[1].ClaimName>>].err

\* Both payloads of a claim event are claims (the old one may be absent).
ClaimPayloads ==
    /\ call.op = "ClaimChanged"
    /\ call.newObj[1].kind = "PersistentVolumeClaim"
    /\ call.oldObj # Nil => call.oldObj[1].kind = "PersistentVolumeClaim"
\* A claim the blocked pod references is created in the pod's namespace.
ReferencedClaimCreated ==
    /\ ClaimPayloads
    /\ call.oldObj = Nil
    /\ call.newObj[1].Namespace = pod.Namespace
    /\ call.newObj[1].Name \in ClaimRefs(pod)

\* C12 as stated: the creation of a claim the blocked pod references returns Queue,
\* whether or not the other claims of the pod exist in the claim store.
C12_CreationQueues ==
    ReferencedClaimCreated => call.hint = "Queue"

\* C12: on the creation of a claim the blocked pod references,
\* isSchedulableAfterPersistentVolumeClaimChange returns Queue with no error when
\* every claim of the pod resolves; when a lookup fails, the first failure in volume
\* order decides: not-found gives QueueSkip with no error, any other error gives
\* Queue with that error.
C12_CreationQueuesWhenResolved ==
    ReferencedClaimCreated =>
        LET e == FirstLookupError(call.store, pod)
        IN /\ call.hint = IF e = "NotFound" THEN "QueueSkip" ELSE "Queue"
           /\ call.err = IF e = "NotFound" THEN "nil" ELSE e

C12_Witness ==
    /\ ReferencedClaimCreated
    /\ ClaimRefs(pod) = ClaimNames
    /\ call.store[<<pod.Namespace, call.newObj[1].Name>>].err = "nil"
    /\ FirstLookupError(call.store, pod) = "NotFound"
    /\ call.hint = "QueueSkip"
    /\ call.err = "nil"

\* C13: on an update (the old claim is present), or when the new claim is in another
\* namespace than the blocked pod, isSchedulableAfterPersistentVolumeClaimChange
\* returns QueueSkip with no error and makes no claim store lookup, also for a claim
\* the pod references.
C13_UpdateOrOtherNamespaceSkips ==
    (/\ ClaimPayloads
     /\ \/ call.oldObj # Nil
        \/ call.newObj[1].Namespace # pod.Namespace) =>
        /\ call.hint = "QueueSkip"
        /\ call.err = "nil"
        /\ call.gets = 0

C13_Witness ==
    /\ ClaimPayloads
    /\ call.oldObj # Nil
    /\ call.newObj[1].Namespace = pod.Namespace
    /\ call.newObj[1].Name \in ClaimRefs(pod)
    /\ call.store[<<pod.Namespace, call.newObj[1].Name>>].err = "Error"
    /\ call.hint = "QueueSkip"
    /\ call.err = "nil"
    /\ call.gets = 0

\* The payload of the last requeue predicate call is of an unexpected type.
UnexpectedPayload ==
    \/ /\ call.op = "PodDeleted"
       /\ call.oldObj.kind # "Pod"
    \/ /\ call.op = "ClaimChanged"
       /\ ~ClaimPayloads

\* C14: a requeue predicate (pod deleted, claim changed) given a payload of an
\* unexpected type returns Queue together with an error.
C14_UnexpectedPayloadQueuesWithError ==
    UnexpectedPayload => (call.hint = "Queue" /\ call.err # "nil")

C14_Witness ==
    /\ call.op = "ClaimChanged"
    /\ call.oldObj # Nil
    /\ call.oldObj[1].kind # "PersistentVolumeClaim"
    /\ call.newObj[1].kind = "PersistentVolumeClaim"
    /\ call.newObj[1].Namespace # pod.Namespace
    /\ call.hint = "Queue"
    /\ call.err # "nil"


\* Some claim the pod references fails its lookup with error e.
SomeLookupFails(store, p, e) ==
    \E n \in ClaimRefs(p) : store[<<p.Namespace, n>>].err = e

\* C15 as stated: PreFilter returns UnschedulableAndUnresolvable if any claim of the
\* pod is not found and an Error status if a lookup fails with another error, and in
\* both cases writes no state.
C15_StrictResolution ==
    call.op = "PreFilter" =>
        /\ SomeLookupFails(call.store, pod, "NotFound") =>
              (call.status.code = "UnschedulableAndUnresolvable" /\ call.s = Nil /\ ~HasEntry(1))
        /\ SomeLookupFails(call.store, pod, "Error") =>
              (call.status.code = "Error" /\ call.s = Nil /\ ~HasEntry(1))

\* C15: PreFilter looks the pod's claims up in volume order and stops at the first
\* lookup that fails: not-found gives UnschedulableAndUnresolvable, any other error
\* gives an Error status; in both cases no state is computed from the index and
\* none is written to the cycle state.
C15_FirstFailureDecides ==
    (call.op = "PreFilter" /\ ~AllResolve(call.store, pod)) =>
        /\ call.status.code = IF FirstLookupError(call.store, pod) = "NotFound"
                              THEN "UnschedulableAndUnresolvable" ELSE "Error"
        /\ call.s = Nil
        /\ ~HasEntry(1)

C15_Witness ==
    /\ call.op = "PreFilter"
    /\ SomeLookupFails(call.store, pod, "NotFound")
    /\ SomeLookupFails(call.store, pod, "Error")
    /\ FirstLookupError(call.store, pod) = "NotFound"
    /\ \E n \in ClaimRefs(pod) : <<pod.Namespace, n>> \in call.index
    /\ call.status.code = "UnschedulableAndUnresolvable"
    /\ call.s = Nil
    /\ ~HasEntry(1)


\* C16: haveOverlap gives the same answer with its arguments exchanged, and is true
\* exactly when the two lists have an element in common, for lists of any length,
\* empty lists and lists with repeated elements included.
C16_OverlapSymmetric ==
    call.op = "haveOverlap" =>
        /\ call.ret = haveOverlap(call.a2, call.a1)
        /\ call.ret <=> (SetOf(call.a1) \cap SetOf(call.a2) # {})

C16_Witness ==
    /\ call.op = "haveOverlap"
    /\ Len(call.a1) > Len(call.a2)
    /\ call.a1[1] \notin SetOf(call.a2)
    /\ call.ret
    /\ haveOverlap(call.a2, call.a1)


\* PreFilter has just succeeded for the pod, and claim c is one of its exclusive
\* claims and in use in its namespace.
ExclusiveClaimInUse(c) ==
    /\ call.op = "PreFilter"
    /\ call.status = Success
    /\ c \in ExclusiveClaims(call.store, pod)
    /\ <<pod.Namespace, c>> \in call.index
\* Pod x lives in the pod's namespace and has a volume on claim c.
HoldsClaim(x, c) ==
    /\ x.Namespace = pod.Namespace
    /\ c \in ClaimRefs(x)
\* Filter, called on cycle state 1 with heap h, rejects with the exclusive-claim
\* reason on every node without a disk conflict / on no node.
RejectsEverywhere(h) ==
    \A nodePods \in Nodes :
        ~DiskConflict(pod, nodePods) => filterStatus(h, cycleStates[1], pod, nodePods) = ClaimConflictStatus
RejectsNowhere(h) ==
    \A nodePods \in Nodes :
        filterStatus(h, cycleStates[1], pod, nodePods) # ClaimConflictStatus

\* C17 as stated: when an exclusive claim c of the pod is in use and held by pod X of
\* the pod's namespace, Filter after PreFilter rejects with the exclusive-claim reason
\* on every node without a disk conflict; after RemovePod(X) it no longer rejects with
\* that reason; after AddPod(X) undoing the removal it rejects with it again.
C17_PreemptionSequence ==
    [][/\ \A c \in ClaimNames :
            ExclusiveClaimInUse(c) =>
                /\ RejectsEverywhere(heap)
                /\ (/\ call'.op = "RemovePod"
                    /\ call'.cs = 1
                    /\ HoldsClaim(call'.podInfo, c)) => RejectsNowhere(heap')
       /\ (/\ call'.op = "AddPod"
           /\ call'.cs = 1
           /\ call'.undone # Nil
           /\ call'.undone[1] > 0) => RejectsEverywhere(heap')
      ]_vars

\* C17: when an exclusive claim c of the pod is in use and held by pod X of the pod's
\* namespace, Filter after PreFilter rejects with the exclusive-claim reason on every
\* node without a disk conflict. When c is the only exclusive claim of the pod in
\* use, Filter after RemovePod(X) no longer rejects with that reason; when another
\* exclusive claim of the pod is in use too and X has a single volume on the pod's
\* exclusive claims, it keeps rejecting. AddPod(X) undoing the removal brings the
\* rejection back.
C17_PreemptionSequenceOnlyClaim ==
    [][/\ \A c \in ClaimNames :
            ExclusiveClaimInUse(c) =>
                /\ RejectsEverywhere(heap)
                /\ (/\ call'.op = "RemovePod"
                    /\ call'.cs = 1
                    /\ HoldsClaim(call'.podInfo, c)) =>
                        LET k == EntryOf(1).conflictingPVCRefCount
                            m == MatchCount(call'.podInfo, EntryOf(1).readWriteOncePodPVCs)
                        IN /\ k = 1 => RejectsNowhere(heap')
                           /\ (k > 1 /\ m = 1) => RejectsEverywhere(heap')
       /\ (/\ call'.op = "AddPod"
           /\ call'.cs = 1
           /\ call'.undone # Nil
           /\ call'.undone[1] > 0) => RejectsEverywhere(heap')
      ]_vars

C17_Witness ==
    /\ call.op = "AddPod"
    /\ call.cs = 1
    /\ Len(cycleStates) = 1
    /\ call.podInfo.Namespace = pod.Namespace
    /\ call.undone = Some(1)
    /\ call.before = Some(0)
    /\ EntryOf(1).conflictingPVCRefCount = 1
    /\ MatchCount(call.podInfo, EntryOf(1).readWriteOncePodPVCs) = 1
    /\ RejectsEverywhere(heap)


\* C18: AddPod and RemovePod of a pod that lives in another namespace than the pod
\* being scheduled leave conflictingPVCRefCount unchanged, also when a volume of
\* that pod names a claim of readWriteOncePodPVCs.
C18_NamespaceScoped ==
    (/\ call.op \in {"AddPod", "RemovePod"}
     /\ call.before # Nil
     /\ call.podInfo.Namespace # pod.Namespace) =>
        EntryOf(call.cs).conflictingPVCRefCount = call.before[1]


\* The last call is a pod-deleted call for a pod of the blocked pod's namespace.
DeletedInNamespace ==
    /\ call.op = "PodDeleted"
    /\ call.oldObj.kind = "Pod"
    /\ call.oldObj.pod.Namespace = pod.Namespace
\* The blocked pod and the deleted pod have no exclusive-access claim in common.
NoSharedClaim ==
    ExclusiveClaims(call.store, pod) \cap ExclusiveClaims(call.store, call.oldObj.pod) = {}

\* C19 as stated: when the blocked pod's claims resolve and the two pods share no
\* exclusive claim, the predicate returns Queue exactly when the conflict matcher
\* finds no conflict between the blocked pod and a node holding only the deleted
\* pod, and QueueSkip otherwise.
C19_QueueWhenNoConflict ==
    (DeletedInNamespace /\ AllResolve(call.store, pod) /\ NoSharedClaim) =>
        call.hint = IF ~DiskConflict(pod, <<call.oldObj.pod>>) THEN "Queue" ELSE "QueueSkip"

\* C19: when the blocked pod's claims resolve and the two pods share no exclusive
\* claim, the predicate returns Queue with no error exactly when the conflict matcher
\* finds a conflict between the blocked pod and a node holding only the deleted pod,
\* and QueueSkip otherwise; a lookup of the deleted pod failing with an error other
\* than not-found returns Queue with that error before the matcher runs.
C19_QueueWhenConflict ==
    (DeletedInNamespace /\ AllResolve(call.store, pod) /\ NoSharedClaim) =>
        IF DeletedLookupFails
        THEN call.hint = "Queue" /\ call.err = "Error"
        ELSE /\ call.err = "nil"
             /\ call.hint = IF DiskConflict(pod, <<call.oldObj.pod>>) THEN "Queue" ELSE "QueueSkip"

C19_Witness ==
    /\ DeletedInNamespace
    /\ AllResolve(call.store, pod)
    /\ NoSharedClaim
    /\ ExclusiveClaims(call.store, pod) # {}
    /\ ~DeletedLookupFails
    /\ DiskConflict(pod, <<call.oldObj.pod>>)
    /\ call.hint = "Queue"
    /\ call.err = "nil"

\* C20 as stated: in isSchedulableAfterPodDeleted, a claim of the blocked pod that is
\* not found gives QueueSkip with no error whatever the deleted pod; a claim of the
\* deleted pod that is not found is passed over and its other claims still count; a
\* lookup failing with another error, for either pod, gives Queue with that error.
C20_LookupErrors ==
    DeletedInNamespace =>
        /\ SomeLookupFails(call.store, pod, "NotFound") =>
              (call.hint = "QueueSkip" /\ call.err = "nil")
        /\ SomeLookupFails(call.store, pod, "Error") =>
              (call.hint = "Queue" /\ call.err = "Error")
        /\ (AllResolve(call.store, pod) /\ DeletedLookupFails) =>
              (call.hint = "Queue" /\ call.err = "Error")
        /\ (AllResolve(call.store, pod) /\ ~DeletedLookupFails) =>
              /\ call.err = "nil"
              /\ call.hint = IF ~NoSharedClaim \/ DiskConflict(pod, <<call.oldObj.pod>>)
                             THEN "Queue" ELSE "QueueSkip"

\* C20: isSchedulableAfterPodDeleted looks the blocked pod's claims up in volume order
\* and stops at the first failure: not-found gives QueueSkip with no error whatever
\* the deleted pod, another error gives Queue with that error. When they all resolve,
\* a claim of the deleted pod that is not found is passed over and its other claims
\* still count, and a lookup of the deleted pod failing with another error gives
\* Queue with that error.
C20_LookupErrorsInOrder ==
    DeletedInNamespace =>
        LET e == FirstLookupError(call.store, pod)
        IN IF e = "NotFound" THEN call.hint = "QueueSkip" /\ call.err = "nil"
           ELSE IF e # "nil" THEN call.hint = "Queue" /\ call.err = e
           ELSE IF DeletedLookupFails THEN call.hint = "Queue" /\ call.err = "Error"
           ELSE /\ call.err = "nil"
                /\ call.hint = IF ~NoSharedClaim \/ DiskConflict(pod, <<call.oldObj.pod>>)
                               THEN "Queue" ELSE "QueueSkip"

C20_Witness ==
    /\ DeletedInNamespace
    /\ FirstLookupError(call.store, pod) = "NotFound"
    /\ SomeLookupFails(call.store, pod, "Error")
    /\ DeletedLookupFails
    /\ call.hint = "QueueSkip"
    /\ call.err = "nil"


\* C21: Filter and the two queueing hints leave every PreFilter state as it is, and
\* AddPod and RemovePod leave readWriteOncePodPVCs as it is; so a Filter call returns
\* what the state PreFilter left gives for its node, whatever Filter calls for other
\* nodes came before it, and the same node gets the same answer again.
C21_ReadersLeaveState ==
    [][/\ call'.op \in {"Filter", "PodDeleted", "ClaimChanged"} =>
            /\ heap' = heap
            /\ cycleStates' = cycleStates
       /\ call'.op \in {"AddPod", "RemovePod"} =>
            /\ cycleStates' = cycleStates
            /\ \A a \in Addrs : heap'[a].readWriteOncePodPVCs = heap[a].readWriteOncePodPVCs
       /\ call'.op = "Filter" =>
            /\ call'.status = filterStatus(heap, cycleStates[call'.cs], pod, call'.nodePods)
            /\ (call.op = "Filter" /\ call.nodePods = call'.nodePods) => call'.status = call.status
      ]_vars

C21_Witness ==
    /\ call.op = "Filter"
    /\ HasEntry(1)
    /\ EntryOf(1).conflictingPVCRefCount > 0
    /\ EntryOf(1).readWriteOncePodPVCs # {}
    /\ ~DiskConflict(pod, call.nodePods)
    /\ call.nodePods # <<>>
    /\ call.status = ClaimConflictStatus


\* C22: AddPod and RemovePod on a cycle state that holds no PreFilter state return an
\* Error status, write no state to the cycle state and change nothing.
C22_MissingStateUpdateFails ==
    [][(/\ call'.op \in {"AddPod", "RemovePod"}
        /\ cycleStates[call'.cs] = NilPtr) =>
            /\ call'.status.code = "Error"
            /\ call'.status # Success
            /\ cycleStates' = cycleStates
            /\ heap' = heap
            /\ pod' = pod
      ]_vars

C22_Witness ==
    /\ call.op = "RemovePod"
    /\ ~HasEntry(call.cs)
    /\ ClaimRefs(call.podInfo) # {}
    /\ call.podInfo.Namespace = pod.Namespace
    /\ ClaimRefs(call.podInfo) \cap ClaimRefs(pod) # {}
    /\ call.status.code = "Error"
    /\ \A a \in Addrs : heap[a] = ZeroState


====
